---- MODULE Spec2Model ----
(***************************************************************************)
(* Cinema seat booking simulator (src/Cinema2.py): the Seat / CinemaHall   *)
(* model, the hit test, the toggle / reset / quit handlers and the         *)
(* load_state / save_state persistence of seats.json.                      *)
(*                                                                         *)
(* Coordinates are kept doubled (x2 = 2*x) so that the halves produced by  *)
(* _grid_origin stay integers; the hit test compares squared distances.    *)
(***************************************************************************)
EXTENDS Integers, Sequences, FiniteSets

\* ------------------------------------------------------------------ config
WINDOW_W == 1000
WINDOW_H == 700
SEAT_RADIUS == 16
SEAT_GAP_X == 18
SEAT_GAP_Y == 24
TOP_MARGIN == 150
BOTTOM_MARGIN == 80

\* Bounds of the model: the halls explored and the snapshot lists read.
MaxRows == 2
MaxCols == 2
MaxEntries == 2
\* A hypothetical layout whose circles overlap: gap = 0 - OverlapBy.
OverlapBy == 20

\* The (gap_x, gap_y) pairs a hall is constructed with.
Gaps == { <<SEAT_GAP_X, SEAT_GAP_Y>>, <<0 - OverlapBy, 0 - OverlapBy>> }

\* The largest hall explored, in seats.
MaxSeats == 5

AllHalls ==
    { [rows |-> r, cols |-> c, radius |-> SEAT_RADIUS, gap_x |-> g[1], gap_y |-> g[2]] :
        r \in 1..MaxRows, c \in 1..MaxCols, g \in Gaps }

Halls == { h \in AllHalls : h.rows * h.cols <= MaxSeats }

\* ------------------------------------------------------------------ layout
\* CinemaHall._grid_origin, doubled: <<2*x0, 2*y0>>.
GridOrigin(h) ==
    LET grid_w == h.cols * (2 * h.radius) + (h.cols - 1) * h.gap_x
        grid_h == h.rows * (2 * h.radius) + (h.rows - 1) * h.gap_y
        x0 == 0 - grid_w
        y0 == (0 - WINDOW_H) + 2 * BOTTOM_MARGIN + 2 * h.radius
              + (WINDOW_H - TOP_MARGIN - BOTTOM_MARGIN - grid_h)
    IN  <<x0, y0>>

\* Seat.__init__: a seat starts free.
NewSeat(r, c, x, y, rad) ==
    [row |-> r, col |-> c, x |-> x, y |-> y, r |-> rad, booked |-> FALSE]

\* A _build_grid whose loops are nested the other way round.
BuildGridColMajor(h) ==
    LET o == GridOrigin(h)
    IN  [i \in 1..(h.rows * h.cols) |->
            LET r == (i - 1) % h.rows
                c == (i - 1) \div h.rows
            IN  NewSeat(r, c,
                        o[1] + 2 * (c * (2 * h.radius + h.gap_x) + h.radius),
                        o[2] + 2 * (r * (2 * h.radius + h.gap_y) + h.radius),
                        h.radius)]

\* CinemaHall._build_grid: row-major list of seats; x, y doubled.
BuildGrid(h) ==
    LET o == GridOrigin(h)
    IN  [i \in 1..(h.rows * h.cols) |->
            LET r == (i - 1) \div h.cols
                c == (i - 1) % h.cols
            IN  NewSeat(r, c,
                        o[1] + 2 * (c * (2 * h.radius + h.gap_x) + h.radius),
                        o[2] + 2 * (r * (2 * h.radius + h.gap_y) + h.radius),
                        h.radius)]

\* A hit test that takes the diameter for the radius.
ContainsWithinDiameter(seat, px, py) ==
    (px - seat.x) * (px - seat.x) + (py - seat.y) * (py - seat.y)
        <= (4 * seat.r) * (4 * seat.r)

\* Seat.contains: hypot(px - x, py - y) <= r, on doubled coordinates.
Contains(seat, px, py) ==
    (px - seat.x) * (px - seat.x) + (py - seat.y) * (py - seat.y)
        <= (2 * seat.r) * (2 * seat.r)

\* The booked flags of a seat list, in list order.
Booked(ss) == [i \in 1..Len(ss) |-> ss[i].booked]

\* ------------------------------------------------------------- persistence
\* Seat.to_dict as it appears in the JSON text: booked is a JSON literal.
ToDict(seat) ==
    [shape |-> "ok", row |-> seat.row, col |-> seat.col,
     booked |-> IF seat.booked THEN "true" ELSE "false"]

\* A save_state that writes the sold seats only.
SaveStateSoldOnly(ss) ==
    [form |-> "list",
     items |-> SelectSeq([i \in 1..Len(ss) |-> ToDict(ss[i])],
                         LAMBDA d : d.booked = "true")]

\* What CinemaHall.save_state writes: {"seats": [to_dict of every seat]}.
SaveState(ss) ==
    [form |-> "list", items |-> [i \in 1..Len(ss) |-> ToDict(ss[i])]]

\* A from_dict that tests the presence of "booked" instead of its value.
FromDictPresence(seat, d) == [seat EXCEPT !.booked = (d.booked # "missing")]

\* Seat.from_dict: bool(data.get("booked", False)).
FromDict(seat, d) == [seat EXCEPT !.booked = (d.booked = "true")]

\* A lookup keyed by the row alone.
StateGetByRow(items, seat) ==
    LET same == { i \in 1..Len(items) : items[i].row = seat.row }
    IN  IF same = {} THEN {}
        ELSE { CHOOSE i \in same : \A j \in same : j <= i }

\* state.get((seat.row, seat.col)) on the dict comprehension of load_state,
\* where a later entry replaces an earlier one with the same (row, col):
\* the index of the entry that survives for this seat, if any.
StateGet(items, seat) ==
    LET same == { i \in 1..Len(items) :
                    <<items[i].row, items[i].col>> = <<seat.row, seat.col>> }
    IN  IF same = {} THEN {}
        ELSE { CHOOSE i \in same : \A j \in same : j <= i }

\* Whether load_state raises on this file: data.get on a non-object, the
\* iteration of a "seats" value that is no list, d["row"] / d["col"] on an
\* entry that lacks the key or is no object.
LoadRaises(f) ==
    \/ f.form \in {"toparray", "seatsnum"}
    \/ /\ f.form = "list"
       /\ \E i \in 1..Len(f.items) : f.items[i].shape # "ok"

\* A load that pairs the entries with the seats by position in the list.
LoadStateByPosition(f, ss) ==
    IF f.form # "list" \/ LoadRaises(f) THEN ss
    ELSE [i \in 1..Len(ss) |->
            IF i <= Len(f.items) THEN FromDict(ss[i], f.items[i]) ELSE ss[i]]

\* CinemaHall.load_state on the seats ss: the seats afterwards.
LoadState(f, ss) ==
    IF f.form # "list" \/ LoadRaises(f) THEN ss
    ELSE [i \in 1..Len(ss) |->
            LET hit == StateGet(f.items, ss[i])
            IN  IF hit = {} THEN ss[i]
                ELSE FromDict(ss[i], f.items[CHOOSE j \in hit : TRUE])]

\* ------------------------------------------------------------ interactions
\* A scan without the break: every seat that contains the point.
ScanAllHits(ss, px, py) == { i \in 1..Len(ss) : Contains(ss[i], px, py) }

\* A scan in construction order: the first seat built that contains the point.
ScanFirstBuilt(ss, px, py) ==
    LET hits == { i \in 1..Len(ss) : Contains(ss[i], px, py) }
    IN  IF hits = {} THEN {}
        ELSE { CHOOSE i \in hits : \A j \in hits : i <= j }

\* The seat toggle_at flips: the first hit of reversed(self.seats).
ScanTargets(ss, px, py) ==
    LET hits == { i \in 1..Len(ss) : Contains(ss[i], px, py) }
    IN  IF hits = {} THEN {}
        ELSE { CHOOSE i \in hits : \A j \in hits : j <= i }

\* A toggle that sets the seat sold instead of negating it.
ToggleSeatsSet(ss, px, py) ==
    [i \in 1..Len(ss) |->
        IF i \in ScanTargets(ss, px, py)
        THEN [ss[i] EXCEPT !.booked = TRUE]
        ELSE ss[i]]

\* The loop of toggle_at: seat.booked = not seat.booked on the seat found.
ToggleSeats(ss, px, py) ==
    [i \in 1..Len(ss) |->
        IF i \in ScanTargets(ss, px, py)
        THEN [ss[i] EXCEPT !.booked = ~ss[i].booked]
        ELSE ss[i]]

\* A reset loop that stops one seat short.
ClearSeatsButLast(ss) ==
    [i \in 1..Len(ss) |->
        IF i < Len(ss) THEN [ss[i] EXCEPT !.booked = FALSE] ELSE ss[i]]

\* A reset that replaces every seat by a new one at the origin.
ClearSeatsRebuild(ss) ==
    [i \in 1..Len(ss) |-> NewSeat(ss[i].row, ss[i].col, 0, 0, ss[i].r)]

\* The loop of reset_all.
ClearSeats(ss) == [i \in 1..Len(ss) |-> [ss[i] EXCEPT !.booked = FALSE]]

\* ------------------------------------------------------------- environment
\* The entries a stored "seats" list may hold when the program starts:
\* well-formed ones (inside and outside the grid, with and without a
\* "booked" field) and malformed ones.
Entries(h) ==
    { [shape |-> "ok", row |-> 0, col |-> 0, booked |-> b] :
        b \in {"true", "false", "missing"} }
    \cup { [shape |-> "ok", row |-> h.rows - 1, col |-> h.cols - 1, booked |-> "true"],
           [shape |-> "ok", row |-> h.rows, col |-> h.cols, booked |-> "true"] }
    \cup { [shape |-> s, row |-> 0, col |-> 0, booked |-> "true"] :
        s \in {"norow", "nocol", "notobj"} }

\* The contents of seats.json the program may find: no file, text that is
\* not JSON, a top-level array, an object without "seats", a "seats" value
\* that is a number, and {"seats": [...]} lists.
InitFiles(h) ==
    { [form |-> f, items |-> << >>] :
        f \in {"absent", "notjson", "toparray", "noseats", "seatsnum"} }
    \cup { [form |-> "list", items |-> it] :
        it \in UNION { [1..n -> Entries(h)] : n \in 0..MaxEntries } }

\* The click points tried (doubled coordinates): every seat's center, a
\* point on the rim of the first seat, a point one unit outside that rim,
\* and the window corner.
Points(h) ==
    LET g == BuildGrid(h)
    IN  { <<g[i].x, g[i].y>> : i \in 1..Len(g) }
        \cup { <<g[1].x + 2 * g[1].r, g[1].y>>,
               <<g[1].x + 2 * g[1].r + 2, g[1].y>>,
               <<WINDOW_W, WINDOW_H>> }

\* ------------------------------------------------------------------- state
VARIABLES
    hall,       \* CinemaHall's rows, cols, radius, gap_x, gap_y
    seats,      \* CinemaHall.seats
    file,       \* the contents of DATA_FILE
    pc,         \* the position of the program
    op,         \* the handler running, or the last one that ran
    changed,    \* toggle_at's local and return value
    wrote,      \* save_state has written during this handler
    drawn,      \* draw_all has run during this handler
    shown,      \* the booked flags painted by the last draw_all
    saved,      \* the booked flags at the last save_state
    pre,        \* booked flags and stored flags when this handler began
    pre2,       \* the same for the handler before, kept for a repeated click
    raised,     \* save_state's exception has left this handler
    stale       \* a write has failed since the last completed save_state

vars == <<hall, seats, file, pc, op, changed, wrote, drawn, shown, saved, pre, pre2,
          raised, stale>>

NoOp == [kind |-> "none", px |-> 0, py |-> 0]
NoPre == [booked |-> << >>, snap |-> << >>]

\* The booked flags a freshly built hall reads from the stored file.
Snap(f, h) == Booked(LoadState(f, BuildGrid(h)))

\* The module-level state before line 250 runs.
Init ==
    /\ hall \in Halls
    /\ file \in InitFiles(hall)
    /\ seats = << >>
    /\ pc = "start"
    /\ op = NoOp
    /\ changed = FALSE
    /\ wrote = FALSE
    /\ drawn = FALSE
    /\ shown = << >>
    /\ saved = << >>
    /\ pre = NoPre
    /\ pre2 = NoPre
    /\ raised = FALSE
    /\ stale = FALSE

\* CinemaHall.__init__: _build_grid, then load_state; an exception of
\* load_state leaves the module without a hall.
ConstructHall ==
    /\ pc = "start"
    /\ seats' = LoadState(file, BuildGrid(hall))
    /\ pc' = IF LoadRaises(file) THEN "load_raised" ELSE "init_draw"
    /\ op' = [NoOp EXCEPT !.kind = "construct"]
    /\ UNCHANGED <<hall, file, changed, wrote, drawn, shown, saved, pre, pre2, raised, stale>>

\* hall.draw_all() of the app setup.
InitialDraw ==
    /\ pc = "init_draw"
    /\ shown' = Booked(seats)
    /\ drawn' = TRUE
    /\ pc' = "idle"
    /\ UNCHANGED <<hall, seats, file, op, changed, wrote, saved, pre, pre2, raised, stale>>

\* The state a handler starts from.
Enter(kind, px, py, at) ==
    /\ pc = "idle"
    /\ pc' = at
    /\ op' = [kind |-> kind, px |-> px, py |-> py]
    /\ changed' = FALSE
    /\ wrote' = FALSE
    /\ drawn' = FALSE
    /\ pre' = [booked |-> Booked(seats), snap |-> Snap(file, hall)]
    /\ pre2' = IF op = [kind |-> kind, px |-> px, py |-> py] /\ kind = "toggle"
               THEN pre ELSE NoPre
    /\ raised' = FALSE
    /\ UNCHANGED <<hall, seats, file, shown, saved, stale>>

\* on_click: a pointer click at (px, py) enters toggle_at.
OnClick ==
    \E p \in Points(hall) : Enter("toggle", p[1], p[2], "toggle_scan")

\* A toggle_at that saves and redraws whether or not a seat changed.
AfterScanAlways(hit) == "toggle_save"

\* A toggle_at that redraws without having saved.
AfterScanDrawFirst(hit) == IF hit THEN "toggle_draw" ELSE "idle"

\* Where toggle_at goes after its scan: save and redraw if changed.
AfterScan(hit) == IF hit THEN "toggle_save" ELSE "idle"

\* toggle_at, the scan over reversed(self.seats) and the test of changed.
ToggleScan ==
    /\ pc = "toggle_scan"
    /\ seats' = ToggleSeats(seats, op.px, op.py)
    /\ changed' = (ScanTargets(seats, op.px, op.py) # {})
    /\ pc' = AfterScan(changed')
    /\ UNCHANGED <<hall, file, op, wrote, drawn, shown, saved, pre, pre2, raised, stale>>

\* self.save_state() at position at, continuing at position next.
SaveAt(at, next) ==
    /\ pc = at
    /\ file' = SaveState(seats)
    /\ wrote' = TRUE
    /\ saved' = Booked(seats)
    /\ stale' = FALSE
    /\ pc' = next
    /\ UNCHANGED <<hall, seats, op, changed, drawn, shown, pre, pre2, raised>>

\* self.draw_all() at position at, continuing at position next.
DrawAt(at, next) ==
    /\ pc = at
    /\ shown' = Booked(seats)
    /\ drawn' = TRUE
    /\ pc' = next
    /\ UNCHANGED <<hall, seats, file, op, changed, wrote, saved, pre, pre2, raised, stale>>

ToggleSave == SaveAt("toggle_save", "toggle_draw")
ToggleDraw == DrawAt("toggle_draw", "idle")

\* on_reset: the r key enters reset_all.
OnReset == Enter("reset", 0, 0, "reset_clear")

ResetClear ==
    /\ pc = "reset_clear"
    /\ seats' = ClearSeats(seats)
    /\ pc' = "reset_save"
    /\ UNCHANGED <<hall, file, op, changed, wrote, drawn, shown, saved, pre, pre2, raised, stale>>

ResetSave == SaveAt("reset_save", "reset_draw")
ResetDraw == DrawAt("reset_draw", "idle")

\* An on_quit that closes the window without saving.
QuitWithoutSave ==
    /\ pc = "quit_save"
    /\ pc' = "quit_bye"
    /\ UNCHANGED <<hall, seats, file, op, changed, wrote, drawn, shown, saved, pre, pre2, raised, stale>>

\* on_quit: q or Escape; save_state, then screen.bye().
OnQuit == Enter("quit", 0, 0, "quit_save")

QuitSave == SaveAt("quit_save", "quit_bye")

QuitBye ==
    /\ pc = "quit_bye"
    /\ pc' = "exited"
    /\ UNCHANGED <<hall, seats, file, op, changed, wrote, drawn, shown, saved, pre, pre2, raised, stale>>

\* The program is started again with the same configuration and finds the
\* file the previous run left.
Relaunch ==
    /\ pc = "exited"
    /\ pc' = "start"
    /\ seats' = << >>
    /\ shown' = << >>
    /\ op' = NoOp
    /\ changed' = FALSE
    /\ wrote' = FALSE
    /\ drawn' = FALSE
    /\ pre' = NoPre
    /\ pre2' = NoPre
    /\ raised' = FALSE
    /\ stale' = FALSE
    /\ UNCHANGED <<hall, file, saved>>

Next ==
    \/ ConstructHall
    \/ InitialDraw
    \/ OnClick
    \/ ToggleScan
    \/ ToggleSave
    \/ ToggleDraw
    \/ OnReset
    \/ ResetClear
    \/ ResetSave
    \/ ResetDraw
    \/ OnQuit
    \/ QuitSave
    \/ QuitBye
    \/ Relaunch

Spec == Init /\ [][Next]_vars

\* ------------------------------------------------- failing storage, stops
\* The largest hall explored with failing storage, in seats.
FaultSeats == 4

\* The halls explored with failing storage: the shipped gaps.
FaultHalls ==
    { h \in Halls : /\ h.gap_x = SEAT_GAP_X /\ h.gap_y = SEAT_GAP_Y
                    /\ h.rows * h.cols <= FaultSeats }

\* Text cut off after the first k entries of the snapshot of ss: not JSON.
PartialText(ss, k) ==
    [form |-> "partial", items |-> SubSeq(SaveState(ss).items, 1, k)]

\* A write that opens the file without truncating it: the first k entries
\* are new, the rest is what the file held.
WriteOutcomesInPlace(old, ss) ==
    {old, SaveState(ss)}
    \cup { [form |-> "list",
            items |-> [i \in 1..Len(ss) |->
                         IF i <= k THEN SaveState(ss).items[i] ELSE old.items[i]]] :
             k \in { j \in 0..Len(ss) : old.form = "list" /\ Len(old.items) = Len(ss) } }

\* The file a save_state of ss can leave when it does not complete: open()
\* failed (the old contents), open(DATA_FILE, "w") emptied the file and
\* json.dump got through k entries, or the whole text reached the file.
WriteOutcomes(old, ss) ==
    {old, SaveState(ss)} \cup { PartialText(ss, k) : k \in 0..Len(ss) }

SavePositions == {"toggle_save", "reset_save", "quit_save"}

\* A failed write that is undone in memory.
FailAtRollback(at) ==
    /\ pc = at
    /\ ~stale
    /\ file' \in WriteOutcomes(file, seats)
    /\ seats' = [i \in 1..Len(seats) |-> [seats[i] EXCEPT !.booked = pre.booked[i]]]
    /\ raised' = TRUE
    /\ stale' = TRUE
    /\ pc' = "idle"
    /\ UNCHANGED <<hall, op, changed, wrote, drawn, shown, saved, pre, pre2>>

\* self.save_state() at position at raises: nothing catches the exception
\* in toggle_at, reset_all or on_quit, the rest of the handler is skipped
\* and the event loop goes on.  One failure at a time is explored: the
\* write that follows a failed one completes.
FailAt(at) ==
    /\ pc = at
    /\ ~stale
    /\ file' \in WriteOutcomes(file, seats)
    /\ raised' = TRUE
    /\ stale' = TRUE
    /\ pc' = "idle"
    /\ UNCHANGED <<hall, seats, op, changed, wrote, drawn, shown, saved, pre, pre2>>

SaveFails == \E at \in SavePositions : FailAt(at)

\* The positions at which a constructed hall exists and the process runs.
Running ==
    {"init_draw", "idle", "toggle_scan", "toggle_save", "toggle_draw",
     "reset_clear", "reset_save", "reset_draw", "quit_save", "quit_bye"}

\* The process stops between two statements.
Kill ==
    /\ pc \in Running
    /\ pc' = "killed"
    /\ UNCHANGED <<hall, seats, file, op, changed, wrote, drawn, shown, saved, pre, pre2,
                   raised, stale>>

\* The process stops inside save_state.
KillInWrite ==
    /\ pc \in SavePositions
    /\ file' \in WriteOutcomes(file, seats)
    /\ pc' = "killed"
    /\ UNCHANGED <<hall, seats, op, changed, wrote, drawn, shown, saved, pre, pre2,
                   raised, stale>>

\* The program is started again after a stop.
Restart ==
    /\ pc = "killed"
    /\ pc' = "start"
    /\ seats' = << >>
    /\ shown' = << >>
    /\ op' = NoOp
    /\ changed' = FALSE
    /\ wrote' = FALSE
    /\ drawn' = FALSE
    /\ pre' = NoPre
    /\ pre2' = NoPre
    /\ raised' = FALSE
    /\ stale' = FALSE
    /\ saved' = << >>
    /\ UNCHANGED <<hall, file>>

InitFail == Init /\ hall \in FaultHalls /\ file.items = << >>

NextFail ==
    \/ Next
    \/ SaveFails
    \/ Kill
    \/ KillInWrite
    \/ Restart

SpecFail == InitFail /\ [][NextFail]_vars

\* ------------------------------------------------------------ layouts
\* The largest hall explored with other gaps, in seats.
LayoutSeats == 4

\* Gaps that make neighbouring circles touch, gaps of one unit, a row gap
\* of zero only, and the shipped gaps.
LayoutGaps == { <<0, 0>>, <<1, 1>>, <<SEAT_GAP_X, 0>>, <<SEAT_GAP_X, SEAT_GAP_Y>> }

LayoutHalls ==
    { [rows |-> r, cols |-> c, radius |-> SEAT_RADIUS, gap_x |-> g[1], gap_y |-> g[2]] :
        r \in 1..MaxRows, c \in 1..MaxCols, g \in LayoutGaps }

\* The click points tried on these halls: those of Points and the point
\* halfway between the centers of every two seats.  Two discs of one radius
\* share a point exactly when that midpoint lies in both.
ProbePoints(h) ==
    LET g == BuildGrid(h)
    IN  Points(h)
        \cup { <<(g[i].x + g[j].x) \div 2, (g[i].y + g[j].y) \div 2>> :
                 i \in 1..Len(g), j \in 1..Len(g) }

InitLayout ==
    /\ hall \in { h \in LayoutHalls : h.rows * h.cols <= LayoutSeats }
    /\ file = [form |-> "absent", items |-> << >>]
    /\ seats = << >>
    /\ pc = "start"
    /\ op = NoOp
    /\ changed = FALSE
    /\ wrote = FALSE
    /\ drawn = FALSE
    /\ shown = << >>
    /\ saved = << >>
    /\ pre = NoPre
    /\ pre2 = NoPre
    /\ raised = FALSE
    /\ stale = FALSE

\* on_click at one of the probe points.
OnProbe ==
    \E p \in ProbePoints(hall) : Enter("toggle", p[1], p[2], "toggle_scan")

NextLayout ==
    \/ ConstructHall
    \/ InitialDraw
    \/ OnProbe
    \/ ToggleScan
    \/ ToggleSave
    \/ ToggleDraw

SpecLayout == InitLayout /\ [][NextLayout]_vars

\* ------------------------------------------------------------- properties
\* Some seat contains the point of the current click.
SomeSeatContains == \E i \in 1..Len(seats) : Contains(seats[i], op.px, op.py)

\* The indices of f's entries that name the seat.
EntriesOf(f, seat) ==
    { j \in 1..Len(f.items) : f.items[j].row = seat.row /\ f.items[j].col = seat.col }

\* f is a snapshot with exactly one well-formed entry per seat of ss and no
\* other entry, each entry carrying its seat's booked flag.
ExactSnapshot(f, ss) ==
    /\ f.form = "list"
    /\ Len(f.items) = Len(ss)
    /\ \A j \in 1..Len(f.items) :
          f.items[j].shape = "ok" /\ f.items[j].booked \in {"true", "false"}
    /\ \A i \in 1..Len(ss) :
          /\ Cardinality(EntriesOf(f, ss[i])) = 1
          /\ \A j \in EntriesOf(f, ss[i]) : (f.items[j].booked = "true") = ss[i].booked

\* C1: whenever a toggle_at that returned True or a reset_all has returned,
\* the stored snapshot has exactly one entry per seat and nothing else, and
\* each entry's booked value is that seat's in-memory booked value.
SaveOnEveryMutation ==
    (pc = "idle" /\ ((op.kind = "toggle" /\ changed) \/ op.kind = "reset"))
        => ExactSnapshot(file, seats)

\* C1 witness: a click that sold a seat has returned.
SaveOnEveryMutationWitness ==
    /\ pc = "idle" /\ op.kind = "toggle" /\ changed
    /\ \E i \in 1..Len(seats) : seats[i].booked
    /\ \E i \in 1..Len(seats) : ~seats[i].booked

\* C2: a hall built after save_state, with the same rows and cols, loads
\* for every seat the booked value it had when saved.
RoundTrip ==
    (pc = "init_draw" /\ saved # << >>) => Booked(seats) = saved

\* C2 witness: a hall was rebuilt from a snapshot saved with sold and free
\* seats.
RoundTripWitness ==
    /\ pc = "init_draw"
    /\ \E i \in 1..Len(saved) : saved[i]
    /\ \E i \in 1..Len(saved) : ~saved[i]

\* C3: during and after a toggle_at call either no seat differs from its
\* value at the start of the call, or exactly one seat differs (its booked
\* value negated) and that seat contains the point.
AtMostOneSeatChanges ==
    op.kind = "toggle" =>
        LET diff == { i \in 1..Len(seats) : seats[i].booked # pre.booked[i] }
        IN  \/ diff = {}
            \/ \E i \in diff : diff = {i} /\ Contains(seats[i], op.px, op.py)

\* C3 witness: a click inside several seats has been handled.
AtMostOneSeatChangesWitness ==
    /\ pc = "idle" /\ op.kind = "toggle" /\ changed
    /\ Cardinality({ i \in 1..Len(seats) : Contains(seats[i], op.px, op.py) }) >= 2

\* C4: toggle_at returns True exactly when some seat contains the point,
\* and a click no seat contains returns at once, changing no seat, not
\* writing the stored snapshot and requesting no redraw.
MissIsNoOp ==
    [][ /\ (pc' = "idle" /\ op'.kind = "toggle") => (changed' <=> SomeSeatContains')
        /\ (pc = "toggle_scan" /\ pc' # "toggle_scan" /\ ~SomeSeatContains) =>
              /\ pc' = "idle"
              /\ ~changed'
              /\ seats' = seats
              /\ file' = file
              /\ ~wrote' /\ ~drawn'
              /\ shown' = shown ]_vars

\* C4 witness: a click outside every seat has returned while no snapshot
\* exists.
MissIsNoOpWitness ==
    /\ pc = "idle" /\ op.kind = "toggle" /\ ~changed
    /\ ~SomeSeatContains
    /\ file.form = "absent"

\* C5: after reset_all returns every seat is free in memory, and the
\* stored snapshot, written by this call, lists every seat with booked false.
ResetConvergence ==
    (pc = "idle" /\ op.kind = "reset") =>
        /\ \A i \in 1..Len(seats) : ~seats[i].booked
        /\ wrote
        /\ file.form = "list"
        /\ \A j \in 1..Len(file.items) : file.items[j].booked = "false"
        /\ \A i \in 1..Len(seats) : EntriesOf(file, seats[i]) # {}

\* C5 witness: reset_all has returned from a hall with a sold seat.
ResetConvergenceWitness ==
    /\ pc = "idle" /\ op.kind = "reset"
    /\ \E i \in 1..Len(pre.booked) : pre.booked[i]

\* C6: after two consecutive toggle_at calls with the same point inside a
\* seat, every seat, and the value the stored snapshot gives every seat,
\* is what it was before the first call.
TogglePairs ==
    (pc = "idle" /\ op.kind = "toggle" /\ changed /\ pre2 # NoPre) =>
        /\ Booked(seats) = pre2.booked
        /\ Snap(file, hall) = pre2.snap

\* C6 witness: the second of two clicks on one seat has returned, in a hall
\* where another seat is sold.
TogglePairsWitness ==
    /\ pc = "idle" /\ op.kind = "toggle" /\ changed /\ pre2 # NoPre
    /\ \E i \in 1..Len(seats) : seats[i].booked

\* C7: load_state does not raise and leaves every seat free when the file
\* is not JSON or is JSON of the wrong structure.
MalformedFileTolerated ==
    (op.kind = "construct" /\ file.form \in {"notjson", "toparray", "noseats", "seatsnum"})
        => /\ pc # "load_raised"
           /\ \A i \in 1..Len(seats) : ~seats[i].booked

\* Every entry of f is an object with "row" and "col".
Readable(f) ==
    f.form = "list" /\ \A j \in 1..Len(f.items) : f.items[j].shape = "ok"

\* The file without its malformed entries.
WellFormedPart(f) ==
    [f EXCEPT !.items = SelectSeq(f.items, LAMBDA d : d.shape = "ok")]

\* C8: a malformed entry of the "seats" list is skipped: load_state does
\* not raise and still applies every well-formed entry that matches a seat.
MalformedEntriesIgnored ==
    (op.kind = "construct" /\ file.form = "list" /\ ~Readable(file))
        => /\ pc # "load_raised"
           /\ pc = "init_draw" =>
                 Booked(seats) = Snap(WellFormedPart(file), hall)

\* C9: load_state on a readable snapshot raises nothing and writes nothing;
\* afterwards a seat is booked only if the snapshot has an entry with its
\* (row, col), and a seat without an entry is free.
LoadAppliesOnlyMatching ==
    [][ (pc = "start" /\ pc' # "start" /\ Readable(file)) =>
            /\ pc' = "init_draw"
            /\ file' = file /\ ~wrote'
            /\ Len(seats') = hall.rows * hall.cols
            /\ \A i \in 1..Len(seats') :
                  seats'[i].booked =>
                      \E j \in EntriesOf(file, seats'[i]) : file.items[j].booked = "true" ]_vars

\* C9 witness: a snapshot with an entry outside the grid and an entry that
\* books a seat has been loaded into a hall of several seats.
LoadAppliesOnlyMatchingWitness ==
    /\ pc = "init_draw" /\ Readable(file)
    /\ \E j \in 1..Len(file.items) : file.items[j].row >= hall.rows
    /\ \E i \in 1..Len(seats) : seats[i].booked
    /\ \E i \in 1..Len(seats) : ~seats[i].booked

\* C10: once a toggle_at or reset_all has redrawn, the snapshot has been
\* written by that call and holds the booked values in memory, which are
\* the ones painted.
PersistBeforeRedraw ==
    (op.kind \in {"toggle", "reset"} /\ drawn) =>
        /\ wrote
        /\ ExactSnapshot(file, seats)
        /\ shown = Booked(seats)

\* C10 witness: the redraw of a click on a seat has run.
PersistBeforeRedrawWitness ==
    /\ op.kind = "toggle" /\ drawn /\ pc = "idle"
    /\ \E i \in 1..Len(seats) : seats[i].booked

\* C14: on quit save_state completes before the window is closed, so at
\* exit the stored snapshot holds the in-memory booked values; quit changes
\* no seat's booked value.
FinalSaveOnQuit ==
    op.kind = "quit" =>
        /\ Booked(seats) = pre.booked
        /\ pc \in {"quit_bye", "exited"} => (wrote /\ ExactSnapshot(file, seats))

\* C14 witness: the program has exited with a sold seat.
FinalSaveOnQuitWitness ==
    /\ pc = "exited" /\ op.kind = "quit"
    /\ \E i \in 1..Len(seats) : seats[i].booked

\* C15: once built, and after any operations, the seat list has rows x cols
\* seats, every (row, col) of the grid exactly once, in row-major order.
GridInvariant ==
    pc # "start" =>
        /\ Len(seats) = hall.rows * hall.cols
        /\ \A r \in 0..(hall.rows - 1), c \in 0..(hall.cols - 1) :
              Cardinality({ i \in 1..Len(seats) :
                              seats[i].row = r /\ seats[i].col = c }) = 1
        /\ \A i, j \in 1..Len(seats) :
              i < j => \/ seats[i].row < seats[j].row
                       \/ seats[i].row = seats[j].row /\ seats[i].col < seats[j].col

\* C15 witness: a hall of several rows and columns after a click and a reset.
GridInvariantWitness ==
    /\ pc = "idle" /\ op.kind = "reset"
    /\ hall.rows >= 2 /\ hall.cols >= 2
    /\ \E i \in 1..Len(pre.booked) : pre.booked[i]

\* C16: the seat a toggle_at flips has the greatest list index among the
\* seats that contain the point.
TopmostSeatWins ==
    (op.kind = "toggle" /\ pc # "toggle_scan") =>
        /\ changed => \E i \in 1..Len(seats) : seats[i].booked # pre.booked[i]
        /\ \A i \in 1..Len(seats) :
              seats[i].booked # pre.booked[i] =>
                  \A j \in 1..Len(seats) : Contains(seats[j], op.px, op.py) => j <= i

\* C16 witness: a click inside several seats has flipped one of them and is
\* about to redraw.
TopmostSeatWinsWitness ==
    /\ pc = "toggle_draw"
    /\ \E i, j \in 1..Len(seats) :
          /\ i < j
          /\ Contains(seats[i], op.px, op.py) /\ Contains(seats[j], op.px, op.py)
          /\ seats[j].booked # pre.booked[j]

\* The extremes of the seat circles, doubled.
Least(S) == CHOOSE a \in S : \A b \in S : a <= b
Greatest(S) == CHOOSE a \in S : \A b \in S : b <= a

\* C17: the bounding box of the seat circles is centered on x = 0 and the
\* free space below the lowest row, down to the bottom margin line, equals
\* the free space above the highest row, up to the top margin line.
LayoutCentered ==
    pc # "start" =>
        LET I == 1..Len(seats)
            left == Least({ seats[i].x - 2 * seats[i].r : i \in I })
            right == Greatest({ seats[i].x + 2 * seats[i].r : i \in I })
            low == Least({ seats[i].y - 2 * seats[i].r : i \in I })
            high == Greatest({ seats[i].y + 2 * seats[i].r : i \in I })
        IN  /\ left + right = 0
            /\ low - (2 * BOTTOM_MARGIN - WINDOW_H) = (WINDOW_H - 2 * TOP_MARGIN) - high

\* The entries of f with q applied to their order.
Permuted(f, q) == [f EXCEPT !.items = [i \in 1..Len(f.items) |-> f.items[q[i]]]]

Perms(n) == { q \in [1..n -> 1..n] : \A a, b \in 1..n : a # b => q[a] # q[b] }

\* Entries of f with the same (row, col) give the same booked truth value.
Agreeing(f) ==
    \A i, j \in 1..Len(f.items) :
        (f.items[i].row = f.items[j].row /\ f.items[i].col = f.items[j].col)
            => ((f.items[i].booked = "true") = (f.items[j].booked = "true"))

\* C19 as stated: every permutation of every readable snapshot list, also
\* one that names a seat twice, loads the same booked values.
OrderInsensitiveLoadAny ==
    (pc = "init_draw" /\ Readable(file)) =>
        \A q \in Perms(Len(file.items)) :
            Booked(seats) = Snap(Permuted(file, q), hall)

\* C19 amended: every permutation of a readable snapshot list whose entries
\* for one (row, col) agree on the booked value loads the same booked values.
OrderInsensitiveLoad ==
    (pc = "init_draw" /\ Readable(file) /\ Agreeing(file)) =>
        \A q \in Perms(Len(file.items)) :
            Booked(seats) = Snap(Permuted(file, q), hall)

\* C19 witness: a list of two different entries, one of which books a seat
\* and leaves another free, has been loaded.
OrderInsensitiveLoadWitness ==
    /\ pc = "init_draw" /\ Readable(file) /\ Agreeing(file)
    /\ Len(file.items) >= 2 /\ file.items[1] # file.items[2]
    /\ \E i \in 1..Len(seats) : seats[i].booked
    /\ \E i \in 1..Len(seats) : ~seats[i].booked

\* C20: no step changes the hall's configuration, nor the row, col, center
\* or radius of a seat of the hall.
OnlyBookedMutable ==
    [][ /\ hall' = hall
        /\ (seats # << >> /\ seats' # << >>) =>
              /\ Len(seats') = Len(seats)
              /\ \A i \in 1..Len(seats) :
                    /\ seats'[i].row = seats[i].row /\ seats'[i].col = seats[i].col
                    /\ seats'[i].x = seats[i].x /\ seats'[i].y = seats[i].y
                    /\ seats'[i].r = seats[i].r ]_vars

\* C20 witness: a hall of several seats has been clicked and is being
\* closed with a sold seat.
OnlyBookedMutableWitness ==
    /\ pc = "quit_bye"
    /\ \E i \in 1..Len(seats) : seats[i].booked
    /\ hall.rows * hall.cols >= 2

AllFree(h) == [i \in 1..(h.rows * h.cols) |-> FALSE]

\* C11: when the process has stopped, a hall built from the stored file
\* has the in-memory booked values of the moment of the stop, or those from
\* before the operation that was in progress.
CrashLosesAtMostOneAction ==
    (pc = "killed" /\ ~stale) =>
        Snap(file, hall) \in {Booked(seats), pre.booked}

\* C12: during and after a reset_all, however its write ends, a hall loaded
\* from storage sees every seat free or exactly the values stored before
\* the reset.
ResetAtomicInStorage ==
    op.kind = "reset" => Snap(file, hall) \in {AllFree(hall), pre.snap}

\* C12 witness: the process stopped inside the write of a reset_all, part
\* of the text written, while the snapshot before it had a sold seat.
ResetAtomicInStorageWitness ==
    /\ pc = "killed" /\ op.kind = "reset"
    /\ file.form = "partial" /\ Len(file.items) >= 1
    /\ \E i \in 1..Len(pre.snap) : pre.snap[i]
    /\ \E i \in 1..Len(pre.snap) : ~pre.snap[i]

\* C13: a write failure inside toggle_at or reset_all leaves the handler as
\* an exception, without redraw and with the booked values as mutated; and
\* every save_state that completes leaves the stored snapshot equal to
\* memory, whatever failed before.
WriteFailureSurfaces ==
    [][ /\ (pc \in {"toggle_save", "reset_save"} /\ pc' = "idle") =>
              /\ raised' /\ ~drawn' /\ ~wrote'
              /\ seats' = seats
              /\ op.kind = "toggle" => Booked(seats') # pre.booked
              /\ op.kind = "reset" => Booked(seats') = AllFree(hall)
        /\ (wrote' /\ ~wrote) => (ExactSnapshot(file', seats') /\ ~stale') ]_vars

\* C13 witness: a handler that began with the stored snapshot out of line
\* with memory, after a failed write, has saved.
WriteFailureSurfacesWitness ==
    /\ pc = "idle" /\ wrote /\ op.kind = "toggle"
    /\ pre.snap # pre.booked
    /\ ExactSnapshot(file, seats)

\* The seats of ss that contain the point.
Hits(ss, px, py) == { i \in 1..Len(ss) : Contains(ss[i], px, py) }

\* No probe point lies in two seats, and the seats a click has flipped are
\* all the seats that contain its point.
UniqueHitHere ==
    /\ \A p \in ProbePoints(hall) : Cardinality(Hits(seats, p[1], p[2])) <= 1
    /\ (op.kind = "toggle" /\ pc # "toggle_scan") =>
          { i \in 1..Len(seats) : seats[i].booked # pre.booked[i] }
              = Hits(seats, op.px, op.py)

\* C18 as stated: in a grid built with gap_x >= 0 and gap_y >= 0 no point
\* is contained in two distinct seats.
UniqueHitNonNegativeGaps ==
    (pc # "start" /\ hall.gap_x >= 0 /\ hall.gap_y >= 0) => UniqueHitHere

\* C18 amended: in a grid built with whole-number gaps gap_x >= 1 and
\* gap_y >= 1 no point is contained in two distinct seats, so the seat a
\* click toggles does not depend on the scan order.
UniqueHit ==
    (pc # "start" /\ hall.gap_x >= 1 /\ hall.gap_y >= 1) => UniqueHitHere

\* C18 witness: in a hall with gaps of one unit and two columns, a click on
\* the rim of a seat has flipped it.
UniqueHitWitness ==
    /\ pc = "idle" /\ op.kind = "toggle" /\ changed
    /\ hall.gap_x = 1 /\ hall.gap_y = 1 /\ hall.cols >= 2
    /\ \E i \in 1..Len(seats) :
          (op.px - seats[i].x) * (op.px - seats[i].x)
            + (op.py - seats[i].y) * (op.py - seats[i].y)
              = (2 * seats[i].r) * (2 * seats[i].r)

====
